---- MODULE Spec2Model ----
(***************************************************************************)
(* Model of the cache subsystem of youknowserv:                            *)
(*   - the durable store and TTL helpers of localStorage.js                *)
(*     (src/unnamed/part_002),                                             *)
(*   - the cache facade of src/cache.js and its older variant              *)
(*     (src/unnamed/part_000),                                             *)
(*   - the in-process memoryCache and the /api/token/:tokenId handler of   *)
(*     src/server.js.                                                      *)
(* Time is Date.now() in milliseconds.  JavaScript values are encoded so   *)
(* that every comparison is between values of one shape:                   *)
(*   undefined / null      <<>>                                            *)
(*   a number n            <<n>>                                           *)
(*   an ISO-8601 string    <<n>>  (n = the instant it denotes, in ms)      *)
(*   a file                a record with a kind field                      *)
(***************************************************************************)
EXTENDS Integers, Sequences, FiniteSets, TLC

VARIABLES
    now,          \* Date.now(), ms
    files,        \* DATA_DIR/cache/<key>.json for every key
    memoryCache,  \* the Map of server.js, keyed by `token_${tokenId}`
    ret,          \* observation of the last call: arguments, path taken, result
    handlers,     \* the token requests in flight: where each one is suspended
    lastRequestTime,  \* part_001: when waitForRateLimit last let a request go
    calls         \* part_001: the calls of fetchWithRetry, one per caller

fetchVars == <<lastRequestTime, calls>>
vars == <<now, files, memoryCache, ret, handlers, lastRequestTime, calls>>

----------------------------------------------------------------------------
(* Program constants *)

CACHE_DURATION == 30000
MEMORY_CACHE_DURATION == 60000
DefaultDuration == 30000
MAX_RETRIES == 3
RETRY_DELAY == 1000
RATE_LIMIT_DELAY == 100
\* parseInt(response.headers.get('Retry-After') || '5', 10) * 1000 without
\* the header
DefaultRetryAfter == 5000

(* Bounds of the model *)

MaxTicks == 4
MaxFaultTicks == 2
MaxTokenTicks == 7
MaxMemTicks == 2
MaxOpsTicks == 3
MaxStaleTicks == 9
MaxConcTicks == 7
MaxPairTicks == 2
MaxOwnersTicks == 4
MaxRateTicks == 3
NumCallers == 3
NumMemKeys == 6
NumValues == 2

\* granularity of the modelled clock: a third of CACHE_DURATION
TICK == CACHE_DURATION \div 3

----------------------------------------------------------------------------
(* JavaScript values *)

Undefined == <<>>
Null == <<>>
Num(n) == <<n>>
IsNum(x) == Len(x) = 1

\* new Date().toISOString(): millisecond precision, so the instant survives
ToISOString(t) == <<t>>
\* new Date(timestamp).getTime()
GetTime(timestamp) == timestamp[1]

\* a timestamp string that Date cannot parse ("not-a-date")
InvalidDate == <<0, 0>>
NaN == <<>>
\* new Date(timestamp).getTime() as a JavaScript number: NaN for InvalidDate
DateGetTime(timestamp) ==
    IF IsNum(timestamp) THEN Num(GetTime(timestamp)) ELSE NaN
\* an argument in the place of a duration that is no number: a string, an
\* object
NotANumber == <<0, 0>>
\* a - b on numbers; NaN when an operand is NaN or undefined
JsMinus(a, b) == IF IsNum(a) /\ IsNum(b) THEN Num(a[1] - b[1]) ELSE NaN

\* a > b on numbers; any comparison with undefined (NaN) is false
JsGreater(a, b) == IsNum(a) /\ IsNum(b) /\ a[1] > b[1]

\* Payloads handed to the cache by callers.  v = 0 stands for the falsy
\* payloads (0, "", null, false); expiry is the payload's own `expiry`
\* property, if it has one.
Payloads ==
    { [v |-> i, expiry |-> Undefined] : i \in 0..NumValues }
        \cup { [v |-> 1, expiry |-> Num(TICK)] }

Truthy(data) == data.v # 0

\* `token_${tokenId}`
TokenKeyNames ==
    <<"token_1", "token_2", "token_3", "token_4", "token_5", "token_6",
      "token_7", "token_8">>
TokenKey(tokenId) == TokenKeyNames[tokenId]

\* the tokens requested from /api/token/:tokenId
TokenIds == {1, 2}

\* the file names of the store; "" is the missing key
Keys == {"", "a", "b", "holders"} \cup {TokenKey(i) : i \in TokenIds}
\* the keys the facade is called with in the single-key runs
GenericKeys == {"", "a"}

Durations == {Undefined, Num(TICK), Num(CACHE_DURATION)}

\* which fs call of an operation fails with an I/O error, if any
\* inputs of the runs with I/O faults
FaultKeys == GenericKeys \ {""}
FaultPayloads == {p \in Payloads : p.v <= 1}
FaultDurations == {Undefined, Num(TICK)}

PutFaults == {"none", "mkdir", "write", "writePartial"}
GetFaults == {"none", "mkdir", "read", "unlink"}
DeleteFaults == {"none", "mkdir", "unlink"}

AbsentFile == [kind |-> "absent"]
CorruptFile == [kind |-> "corrupt"]
JsonFile(value) ==
    [kind |-> "json", data |-> value.data, timestamp |-> value.timestamp,
     duration |-> value.duration]

----------------------------------------------------------------------------
(* localStorage.js: the durable store.  Every operator returns              *)
(* [files, value, threw]: the store afterwards, the resolved value, and     *)
(* whether the promise rejected instead.                                    *)

\* getFilePath throws when the collection directory is missing and
\* mkdirSync fails; it runs outside every try block of its callers
getFilePathThrows(io) == io = "mkdir"

\* JSON.parse outside the try block
readData_mutNoCatch(f, key, io) ==
    IF getFilePathThrows(io)
    THEN [files |-> f, value |-> Null, threw |-> TRUE]
    ELSE IF f[key].kind = "absent"
    THEN [files |-> f, value |-> Null, threw |-> FALSE]
    ELSE IF io = "read" \/ f[key].kind = "corrupt"
    THEN [files |-> f, value |-> Null, threw |-> TRUE]
    ELSE [files |-> f, value |-> <<f[key]>>, threw |-> FALSE]

readData(f, key, io) ==
    IF getFilePathThrows(io)
    THEN [files |-> f, value |-> Null, threw |-> TRUE]
    ELSE IF f[key].kind = "absent"
    THEN [files |-> f, value |-> Null, threw |-> FALSE]
    ELSE IF io = "read" \/ f[key].kind = "corrupt"
    THEN [files |-> f, value |-> Null, threw |-> FALSE]
    ELSE [files |-> f, value |-> <<f[key]>>, threw |-> FALSE]

\* the file opened with flag 'wx': an existing file is left as it is
writeData_mutNoOverwrite(f, key, value, io) ==
    IF getFilePathThrows(io)
    THEN [files |-> f, value |-> Undefined, threw |-> TRUE]
    ELSE IF io = "write" \/ f[key].kind # "absent"
    THEN [files |-> f, value |-> Undefined, threw |-> FALSE]
    ELSE IF io = "writePartial"
    THEN [files |-> [f EXCEPT ![key] = CorruptFile],
          value |-> Undefined, threw |-> FALSE]
    ELSE [files |-> [f EXCEPT ![key] = JsonFile(value)],
          value |-> Undefined, threw |-> FALSE]

\* the file opened with flag 'a': a write onto an existing record appends to
\* it, and the two JSON texts in one file no longer parse
writeData_mutAppend(f, key, value, io) ==
    IF getFilePathThrows(io)
    THEN [files |-> f, value |-> Undefined, threw |-> TRUE]
    ELSE IF io = "write"
    THEN [files |-> f, value |-> Undefined, threw |-> FALSE]
    ELSE IF io = "writePartial" \/ f[key].kind # "absent"
    THEN [files |-> [f EXCEPT ![key] = CorruptFile],
          value |-> Undefined, threw |-> FALSE]
    ELSE [files |-> [f EXCEPT ![key] = JsonFile(value)],
          value |-> Undefined, threw |-> FALSE]

writeData(f, key, value, io) ==
    IF getFilePathThrows(io)
    THEN [files |-> f, value |-> Undefined, threw |-> TRUE]
    ELSE IF io = "write"
    THEN [files |-> f, value |-> Undefined, threw |-> FALSE]
    ELSE IF io = "writePartial"
    THEN [files |-> [f EXCEPT ![key] = CorruptFile],
          value |-> Undefined, threw |-> FALSE]
    ELSE [files |-> [f EXCEPT ![key] = JsonFile(value)],
          value |-> Undefined, threw |-> FALSE]

\* the unlink takes the whole collection directory with it
deleteData_mutClearsCollection(f, key, io) ==
    IF getFilePathThrows(io)
    THEN [files |-> f, value |-> Undefined, threw |-> TRUE]
    ELSE IF f[key].kind # "absent" /\ io # "unlink"
    THEN [files |-> [k \in DOMAIN f |-> AbsentFile],
          value |-> Undefined, threw |-> FALSE]
    ELSE [files |-> f, value |-> Undefined, threw |-> FALSE]

deleteData(f, key, io) ==
    IF getFilePathThrows(io)
    THEN [files |-> f, value |-> Undefined, threw |-> TRUE]
    ELSE IF f[key].kind # "absent" /\ io # "unlink"
    THEN [files |-> [f EXCEPT ![key] = AbsentFile],
          value |-> Undefined, threw |-> FALSE]
    ELSE [files |-> f, value |-> Undefined, threw |-> FALSE]

\* getAllData: existsSync and readdirSync run outside the try block, which
\* covers the read and the parse of each file only; a file that cannot be
\* read or parsed is skipped
ListFaults == {"none", "readdir", "read"}
getAllData(f, io) ==
    IF io = "readdir"
    THEN [files |-> f, value |-> <<>>, threw |-> TRUE]
    ELSE LET parsed == {k \in DOMAIN f : f[k].kind = "json" /\ io # "read"}
         IN  [files |-> f, value |-> [k \in parsed |-> f[k]],
              threw |-> FALSE]

\* Date.now() > duration: the timestamp is not subtracted
isExpired_mutAbsolute(timestamp, duration, t) ==
    IF timestamp = Undefined THEN TRUE
    ELSE JsGreater(Num(t), duration)

\* if (!timestamp) return true;
\* return Date.now() - new Date(timestamp).getTime() > duration
isExpired(timestamp, duration, t) ==
    IF timestamp = Undefined THEN TRUE
    ELSE JsGreater(JsMinus(Num(t), DateGetTime(timestamp)), duration)

storageCache(f, key, data, duration, t, io) ==
    writeData(f, key,
              [data |-> data, timestamp |-> ToISOString(t), duration |-> duration],
              io)

\* an expired entry is reported as a miss but left in the store
storageGetCache_mutNoDelete(f, key, duration, t, io) ==
    LET r == readData(f, key, io) IN
    IF r.threw \/ r.value = Null THEN r
    ELSE LET cacheEntry == r.value[1] IN
         IF isExpired(cacheEntry.timestamp, duration, t)
         THEN [files |-> f, value |-> Null, threw |-> FALSE]
         ELSE [files |-> f, value |-> <<cacheEntry.data>>, threw |-> FALSE]

storageGetCache(f, key, duration, t, io) ==
    LET r == readData(f, key, io) IN
    IF r.threw \/ r.value = Null THEN r
    ELSE LET cacheEntry == r.value[1] IN
         IF isExpired(cacheEntry.timestamp, duration, t)
         THEN LET d == deleteData(f, key, io) IN
              [files |-> d.files, value |-> Null, threw |-> d.threw]
         ELSE [files |-> f, value |-> <<cacheEntry.data>>, threw |-> FALSE]

----------------------------------------------------------------------------
(* src/cache.js: the cache facade over collection 'cache'.  Every operator  *)
(* returns [files, value, outcome, threw]; outcome names the path taken.    *)

\* duration || 30000
OrDefault(duration) ==
    IF IsNum(duration) /\ duration[1] # 0 THEN duration[1] ELSE DefaultDuration

cacheData(f, key, data, duration, t, io) ==
    IF key = "" \/ ~Truthy(data)
    THEN [files |-> f, value |-> FALSE, outcome |-> "skipped", threw |-> FALSE]
    ELSE LET entry == [data |-> data, timestamp |-> Num(t),
                       \* a number plus an object or a string is a string
                       expiry |-> IF duration = NotANumber THEN NotANumber
                                  ELSE Num(t + OrDefault(duration))]
             \* storageCache('cache', key, {...}): its 4th argument is not passed
             r == storageCache(f, key, entry, Undefined, t, io)
         IN  IF r.threw
             THEN \* catch (error): return false
                  [files |-> r.files, value |-> FALSE, outcome |-> "error",
                   threw |-> FALSE]
             ELSE \* result is undefined, so result?.error is undefined
                  [files |-> r.files, value |-> TRUE,
                   outcome |-> IF io \in {"write", "writePartial"}
                               THEN "writeFailed" ELSE "written",
                   threw |-> FALSE]

deleteCachedData(f, key, io) ==
    IF key = ""
    THEN [files |-> f, value |-> FALSE, outcome |-> "skipped", threw |-> FALSE]
    ELSE LET r == deleteData(f, key, io) IN
         IF r.threw
         THEN [files |-> r.files, value |-> FALSE, outcome |-> "error",
               threw |-> FALSE]
         ELSE [files |-> r.files, value |-> TRUE,
               outcome |-> IF f[key].kind = "absent" THEN "absent"
                           ELSE IF io = "unlink" THEN "unlinkFailed"
                           ELSE "deleted",
               threw |-> FALSE]

\* result.data.expiry && Date.now() > result.data.expiry, on a payload
PayloadExpiredAt(data, t) ==
    IsNum(data.expiry) /\ data.expiry[1] # 0 /\ t > data.expiry[1]

\* storageGetCache('cache', key): the duration is not passed on
getCachedData_mutDropsDuration(f, key, duration, t, io) ==
    IF key = ""
    THEN [files |-> f, value |-> Null, outcome |-> "skipped", threw |-> FALSE]
    ELSE LET r == storageGetCache(f, key, Undefined, t, io) IN
         IF r.threw
         THEN [files |-> r.files, value |-> Null, outcome |-> "error",
               threw |-> FALSE]
         ELSE IF r.value = Null
         THEN [files |-> r.files, value |-> Null,
               outcome |-> IF f[key].kind = "absent" THEN "absent"
                           ELSE IF f[key].kind = "corrupt" \/ io = "read"
                           THEN "unreadable"
                           ELSE "expired",
               threw |-> FALSE]
         ELSE LET result == r.value[1] IN
              IF ~Truthy(result.data)
              THEN [files |-> r.files, value |-> Null, outcome |-> "nodata",
                    threw |-> FALSE]
              ELSE IF PayloadExpiredAt(result.data, t)
              THEN LET d == deleteCachedData(r.files, key, io) IN
                   [files |-> d.files, value |-> Null,
                    outcome |-> "payloadExpired", threw |-> FALSE]
              ELSE [files |-> r.files, value |-> <<result>>, outcome |-> "hit",
                    threw |-> FALSE]

getCachedData(f, key, duration, t, io) ==
    IF key = ""
    THEN [files |-> f, value |-> Null, outcome |-> "skipped", threw |-> FALSE]
    ELSE LET r == storageGetCache(f, key, duration, t, io) IN
         IF r.threw
         THEN [files |-> r.files, value |-> Null, outcome |-> "error",
               threw |-> FALSE]
         ELSE IF r.value = Null
         THEN [files |-> r.files, value |-> Null,
               outcome |-> IF f[key].kind = "absent" THEN "absent"
                           ELSE IF f[key].kind = "corrupt" \/ io = "read"
                           THEN "unreadable"
                           ELSE "expired",
               threw |-> FALSE]
         ELSE LET result == r.value[1] IN
              IF ~Truthy(result.data)
              THEN [files |-> r.files, value |-> Null, outcome |-> "nodata",
                    threw |-> FALSE]
              ELSE IF PayloadExpiredAt(result.data, t)
              THEN LET d == deleteCachedData(r.files, key, io) IN
                   [files |-> d.files, value |-> Null,
                    outcome |-> "payloadExpired", threw |-> FALSE]
              ELSE [files |-> r.files, value |-> <<result>>, outcome |-> "hit",
                    threw |-> FALSE]

----------------------------------------------------------------------------
(* Calls of the facade by its callers, and the environment *)

CallCacheData(key, data, duration, io) ==
    LET r == cacheData(files, key, data, duration, now, io) IN
    /\ files' = r.files
    /\ ret' = [op |-> "put", key |-> key, data |-> data, duration |-> duration,
               io |-> io, seen |-> files[key],
               value |-> r.value, outcome |-> r.outcome, threw |-> r.threw]
    /\ UNCHANGED <<now, memoryCache, handlers, fetchVars>>

\* seen: the file as the call found it; after: the observation of the put
\* on the same key that this call directly follows, if it follows one
CallGetCachedData(key, duration, io) ==
    LET r == getCachedData(files, key, duration, now, io) IN
    /\ files' = r.files
    /\ ret' = [op |-> "get", key |-> key, duration |-> duration, io |-> io,
               seen |-> files[key],
               after |-> IF ret.op = "put" /\ ret.key = key
                         THEN <<ret>> ELSE <<>>,
               value |-> r.value, outcome |-> r.outcome, threw |-> r.threw]
    /\ UNCHANGED <<now, memoryCache, handlers, fetchVars>>

CallDeleteCachedData(key, io) ==
    LET r == deleteCachedData(files, key, io) IN
    /\ files' = r.files
    /\ ret' = [op |-> "delete", key |-> key, io |-> io, seen |-> files[key],
               value |-> r.value, outcome |-> r.outcome, threw |-> r.threw]
    /\ UNCHANGED <<now, memoryCache, handlers, fetchVars>>

\* the clock advances; the observation of the last call is cleared
Tick(limit) ==
    /\ now < limit * TICK
    /\ now' = now + TICK
    /\ ret' = [op |-> "tick"]
    /\ UNCHANGED <<files, memoryCache, handlers, fetchVars>>

\* the content of an existing file becomes unparsable behind the program's
\* back (a torn write of another process, a damaged disk block)
CorruptStore(key) ==
    /\ files[key].kind = "json"
    /\ files' = [files EXCEPT ![key] = CorruptFile]
    /\ ret' = [op |-> "corrupt", key |-> key]
    /\ UNCHANGED <<now, memoryCache, handlers, fetchVars>>

\* getAllData('cache'), called on the store directly
CallGetAllData(io) ==
    LET r == getAllData(files, io) IN
    /\ files' = r.files
    /\ ret' = [op |-> "list", io |-> io, keys |-> DOMAIN r.value,
               threw |-> r.threw]
    /\ UNCHANGED <<now, memoryCache, handlers, fetchVars>>

\* the record of a key carries another write timestamp than storageCache
\* gave it: none at all, or a string that is no date (a file written or
\* edited by something else than storageCache)
ForeignTimestamps == {Undefined, InvalidDate}
DamageTimestamp(key, timestamp) ==
    /\ files[key].kind = "json"
    /\ files[key].timestamp # timestamp
    /\ files' = [files EXCEPT ![key].timestamp = timestamp]
    /\ ret' = [op |-> "damage", key |-> key]
    /\ UNCHANGED <<now, memoryCache, handlers, fetchVars>>

----------------------------------------------------------------------------
(* src/unnamed/part_000: the older variant of the facade.  It hands the     *)
(* payload and the duration straight to localStorage.js and reads .error    *)
(* and .data off whatever comes back.                                       *)

\* payload.data: the modelled payloads carry no `data` property
PayloadData(payload) == Undefined

cacheData0(f, key, data, duration, t, io) ==
    LET r == storageCache(f, key, data, duration, t, io) IN
    IF r.threw
    THEN [files |-> r.files, value |-> FALSE, outcome |-> "error",
          threw |-> FALSE]
    ELSE \* result is undefined: result.error is a TypeError, caught
         [files |-> r.files, value |-> FALSE, outcome |-> "typeError",
          threw |-> FALSE]

getCachedData0(f, key, duration, t, io) ==
    LET r == storageGetCache(f, key, duration, t, io) IN
    IF r.threw
    THEN [files |-> r.files, value |-> Null, outcome |-> "error",
          threw |-> FALSE]
    ELSE IF r.value = Null
    THEN \* result is null: result.data is a TypeError, caught
         [files |-> r.files, value |-> Null, outcome |-> "typeError",
          threw |-> FALSE]
    ELSE [files |-> r.files, value |-> PayloadData(r.value[1]),
          outcome |-> "hit", threw |-> FALSE]

deleteCachedData0(f, key, io) ==
    LET r == deleteData(f, key, io) IN
    IF r.threw
    THEN [files |-> r.files, value |-> FALSE, outcome |-> "error",
          threw |-> FALSE]
    ELSE \* result is undefined: result.error is a TypeError, caught
         [files |-> r.files, value |-> FALSE, outcome |-> "typeError",
          threw |-> FALSE]

CallCacheData0(key, data, duration, io) ==
    LET r == cacheData0(files, key, data, duration, now, io) IN
    /\ files' = r.files
    /\ ret' = [op |-> "put", key |-> key, data |-> data, duration |-> duration,
               io |-> io, seen |-> files[key],
               value |-> r.value, outcome |-> r.outcome, threw |-> r.threw]
    /\ UNCHANGED <<now, memoryCache, handlers, fetchVars>>

CallGetCachedData0(key, duration, io) ==
    LET r == getCachedData0(files, key, duration, now, io) IN
    /\ files' = r.files
    /\ ret' = [op |-> "get", key |-> key, duration |-> duration, io |-> io,
               seen |-> files[key],
               after |-> IF ret.op = "put" /\ ret.key = key
                         THEN <<ret>> ELSE <<>>,
               value |-> r.value, outcome |-> r.outcome, threw |-> r.threw]
    /\ UNCHANGED <<now, memoryCache, handlers, fetchVars>>

CallDeleteCachedData0(key, io) ==
    LET r == deleteCachedData0(files, key, io) IN
    /\ files' = r.files
    /\ ret' = [op |-> "delete", key |-> key, io |-> io, seen |-> files[key],
               value |-> r.value, outcome |-> r.outcome, threw |-> r.threw]
    /\ UNCHANGED <<now, memoryCache, handlers, fetchVars>>

----------------------------------------------------------------------------
(* src/server.js: memoryCache and GET /api/token/:tokenId *)

\* an existing entry keeps its data and only gets a new timestamp
memoryCacheSet_mutKeepsData(m, key, data, t) ==
    (key :> [data |-> IF key \in DOMAIN m THEN m[key].data ELSE data,
             timestamp |-> t]) @@ m

\* memoryCache.set(memoryCacheKey, { data, timestamp: Date.now() })
memoryCacheSet(m, key, data, t) ==
    (key :> [data |-> data, timestamp |-> t]) @@ m

\* an entry is served however old it is
memoryFresh_mutNoTtl(m, key, t) == key \in DOMAIN m

\* memoryCachedData && Date.now() - memoryCachedData.timestamp < MEMORY_CACHE_DURATION
memoryFresh(m, key, t) ==
    key \in DOMAIN m /\ t - m[key].timestamp < MEMORY_CACHE_DURATION

\* what the upstream fetches of one request deliver: the token is not found
\* (fetchWithHeaders resolves to null), the price fetch throws, or the
\* enriched token data number i
Upstreams ==
    {[kind |-> "notFound"], [kind |-> "priceThrows"]}
        \cup {[kind |-> "ok", v |-> i] : i \in 1..NumValues}
EnrichedTokenData(i) == [v |-> i, expiry |-> Undefined]

\* the check `if (!tokenData)` is missing: a token that was not found is
\* enriched and cached like any other
tokenHandler_mutCachesNotFound(f, m, tokenId, upstream, t, io) ==
    LET key == TokenKey(tokenId) IN
    IF memoryFresh(m, key, t)
    THEN [files |-> f, memory |-> m, status |-> 200, body |-> <<m[key].data>>,
          outcome |-> "memory", stored |-> Undefined]
    ELSE LET c == getCachedData(f, key, Num(CACHE_DURATION), t, io)
             \* const { data: cachedData } = (await getCachedData(...)) || {}
             cachedData == IF c.value = Null THEN Undefined
                           ELSE <<c.value[1].data>>
         IN  IF cachedData # Undefined /\ Truthy(cachedData[1])
             THEN [files |-> c.files,
                   memory |-> memoryCacheSet(m, key, cachedData[1], t),
                   status |-> 200, body |-> cachedData, outcome |-> "disk",
                   stored |-> Undefined]
             ELSE IF upstream.kind = "priceThrows"
             THEN [files |-> c.files, memory |-> m, status |-> 500,
                   body |-> Null, outcome |-> "error", stored |-> Undefined]
             ELSE LET enrichedTokenData ==
                          IF upstream.kind = "notFound"
                          THEN EnrichedTokenData(1)
                          ELSE EnrichedTokenData(upstream.v)
                      w == cacheData(c.files, key, enrichedTokenData,
                                     Num(CACHE_DURATION), t, io)
                  IN  [files |-> w.files,
                       memory |-> memoryCacheSet(m, key, enrichedTokenData, t),
                       status |-> 200, body |-> <<enrichedTokenData>>,
                       outcome |-> "fresh", stored |-> <<w.value>>]

\* the handler, from the request to the response; io is the fs fault that
\* meets the store calls of this request, stored is what await cacheData(...)
\* resolved to (the handler drops it)
tokenHandler(f, m, tokenId, upstream, t, io) ==
    LET key == TokenKey(tokenId) IN
    IF memoryFresh(m, key, t)
    THEN [files |-> f, memory |-> m, status |-> 200, body |-> <<m[key].data>>,
          outcome |-> "memory", stored |-> Undefined]
    ELSE LET c == getCachedData(f, key, Num(CACHE_DURATION), t, io)
             \* const { data: cachedData } = (await getCachedData(...)) || {}
             cachedData == IF c.value = Null THEN Undefined
                           ELSE <<c.value[1].data>>
         IN  IF cachedData # Undefined /\ Truthy(cachedData[1])
             THEN [files |-> c.files,
                   memory |-> memoryCacheSet(m, key, cachedData[1], t),
                   status |-> 200, body |-> cachedData, outcome |-> "disk",
                   stored |-> Undefined]
             ELSE IF upstream.kind = "priceThrows"
             THEN [files |-> c.files, memory |-> m, status |-> 500,
                   body |-> Null, outcome |-> "error", stored |-> Undefined]
             ELSE IF upstream.kind = "notFound"
             THEN [files |-> c.files, memory |-> m, status |-> 404,
                   body |-> Null, outcome |-> "notFound",
                   stored |-> Undefined]
             ELSE LET enrichedTokenData == EnrichedTokenData(upstream.v)
                      w == cacheData(c.files, key, enrichedTokenData,
                                     Num(CACHE_DURATION), t, io)
                  IN  [files |-> w.files,
                       memory |-> memoryCacheSet(m, key, enrichedTokenData, t),
                       status |-> 200, body |-> <<enrichedTokenData>>,
                       outcome |-> "fresh", stored |-> <<w.value>>]

TokenRequest(tokenId, upstream, io) ==
    LET r == tokenHandler(files, memoryCache, tokenId, upstream, now, io) IN
    /\ files' = r.files
    /\ memoryCache' = r.memory
    /\ ret' = [op |-> "token", key |-> TokenKey(tokenId), status |-> r.status,
               body |-> r.body, outcome |-> r.outcome, stored |-> r.stored]
    /\ UNCHANGED <<now, handlers, fetchVars>>

----------------------------------------------------------------------------
(* src/server.js: token requests that overlap.  A handler runs from one     *)
(* await to the next without interruption; while it is suspended the other  *)
(* handler and the clock can move.  Each fs call is synchronous and takes   *)
(* place in the step that issues it.                                        *)

\* the requests for token 1 that can be in flight together
Handlers == {1, 2}

\* a handler suspended at pc; local holds what it carries across the await
Suspended(pc, local) == [pc |-> pc, local |-> local]

\* the request arrives: the memory check, and on a memory miss the call
\* chain getCachedData -> storageGetCache -> readData, which reads the file
\* and suspends at `await readData(...)`
HandlerStart(h) ==
    LET key == TokenKey(1) IN
    /\ handlers[h].pc = "idle"
    /\ IF memoryFresh(memoryCache, key, now)
       THEN /\ ret' = [op |-> "handler", h |-> h, outcome |-> "memory"]
            /\ UNCHANGED handlers
       ELSE /\ handlers' = [handlers EXCEPT ![h] =
                  Suspended("afterRead", readData(files, key, "none").value)]
            /\ ret' = [op |-> "handler", h |-> h, outcome |-> "read"]
    /\ UNCHANGED <<now, files, memoryCache, fetchVars>>

\* the rest of getCachedData: isExpired on the entry that was read, and the
\* unlink of whatever file is there now when that entry is expired (or its
\* payload carries a past expiry); suspends at the await of the handler
HandlerAfterRead(h) ==
    LET key == TokenKey(1)
        entry == handlers[h].local
        \* the store as this handler read it
        view == [files EXCEPT ![key] =
                    IF entry = Null THEN AbsentFile ELSE entry[1]]
        g == getCachedData(view, key, Num(CACHE_DURATION), now, "none")
    IN  /\ handlers[h].pc = "afterRead"
        /\ files' = IF g.files[key] # view[key]
                    THEN deleteData(files, key, "none").files
                    ELSE files
        /\ handlers' = [handlers EXCEPT ![h] = Suspended("afterGet", g.value)]
        /\ ret' = [op |-> "handler", h |-> h, outcome |-> g.outcome]
        /\ UNCHANGED <<now, memoryCache, fetchVars>>

\* const { data: cachedData } = (await getCachedData(...)) || {}: on a hit
\* the backfill and the response, otherwise the upstream fetches start
HandlerAfterGet(h) ==
    LET key == TokenKey(1)
        result == handlers[h].local
    IN  /\ handlers[h].pc = "afterGet"
        /\ IF result # Null /\ Truthy(result[1].data)
           THEN /\ memoryCache' =
                      memoryCacheSet(memoryCache, key, result[1].data, now)
                /\ handlers' = [handlers EXCEPT ![h] =
                                  Suspended("idle", Undefined)]
                /\ ret' = [op |-> "handler", h |-> h, outcome |-> "disk"]
           ELSE /\ handlers' = [handlers EXCEPT ![h] =
                                  Suspended("fetching", Undefined)]
                /\ ret' = [op |-> "handler", h |-> h, outcome |-> "miss"]
                /\ UNCHANGED memoryCache
        /\ UNCHANGED <<now, files, fetchVars>>

\* the upstream fetches settle; with token data the handler calls
\* cacheData, which writes the file and suspends at `await cacheData(...)`
HandlerFetched(h, upstream) ==
    LET key == TokenKey(1) IN
    /\ handlers[h].pc = "fetching"
    /\ IF upstream.kind = "ok"
       THEN LET enrichedTokenData == EnrichedTokenData(upstream.v)
                w == cacheData(files, key, enrichedTokenData,
                               Num(CACHE_DURATION), now, "none")
            IN  /\ files' = w.files
                /\ handlers' = [handlers EXCEPT ![h] =
                      Suspended("afterPut",
                                <<[data |-> enrichedTokenData, at |-> now]>>)]
                /\ ret' = [op |-> "handler", h |-> h, outcome |-> "written"]
       ELSE /\ handlers' = [handlers EXCEPT ![h] =
                              Suspended("idle", Undefined)]
            /\ ret' = [op |-> "handler", h |-> h, outcome |-> upstream.kind]
            /\ UNCHANGED files
    /\ UNCHANGED <<now, memoryCache, fetchVars>>

\* memoryCache.set(...) and res.json(enrichedTokenData)
HandlerAfterPut(h) ==
    LET key == TokenKey(1) IN
    /\ handlers[h].pc = "afterPut"
    /\ memoryCache' =
          memoryCacheSet(memoryCache, key, handlers[h].local[1].data, now)
    /\ handlers' = [handlers EXCEPT ![h] = Suspended("idle", Undefined)]
    /\ ret' = [op |-> "handler", h |-> h, outcome |-> "fresh"]
    /\ UNCHANGED <<now, files, fetchVars>>

----------------------------------------------------------------------------
(* src/server.js: GET /api/token/:tokenId/owners.  The handler calls the    *)
(* facade with three and four arguments, collection first; the facade takes *)
(* (key, duration) and (key, data, duration), so 'holders' arrives as the   *)
(* key, the cache key as the duration of the get and as the data of the     *)
(* put, and the response object as the duration of the put.                 *)

\* the string `holders_${tokenId}_all` as a value: truthy, no expiry property
HoldersCacheKey(tokenId) == [v |-> 100 + tokenId, expiry |-> Undefined]
\* { data: response.data || [] } for the holders list number i of a token
OwnersData(tokenId, i) == [v |-> 10 * tokenId + i, expiry |-> Undefined]

ownersHandler(f, tokenId, upstream, t) ==
    LET c == getCachedData(f, "holders", NotANumber, t, "none")
        \* const { data: cachedData } = (await getCachedData(...)) || {}
        cachedData == IF c.value = Null THEN Undefined
                      ELSE <<c.value[1].data>>
    IN  IF cachedData # Undefined /\ Truthy(cachedData[1])
        THEN [files |-> c.files, status |-> 200, body |-> cachedData,
              outcome |-> "disk"]
        ELSE IF upstream.kind = "notFound"
        THEN [files |-> c.files, status |-> 404, body |-> Null,
              outcome |-> "notFound"]
        ELSE LET w == cacheData(c.files, "holders", HoldersCacheKey(tokenId),
                                NotANumber, t, "none")
             IN  [files |-> w.files, status |-> 200,
                  body |-> <<OwnersData(tokenId, upstream.v)>>,
                  outcome |-> "fresh"]

OwnersRequest(tokenId, upstream) ==
    LET r == ownersHandler(files, tokenId, upstream, now) IN
    /\ files' = r.files
    /\ ret' = [op |-> "owners", tokenId |-> tokenId, status |-> r.status,
               body |-> r.body, outcome |-> r.outcome]
    /\ UNCHANGED <<now, memoryCache, handlers, fetchVars>>

\* the memory-tier write of the handler, taken alone
MemorySet(tokenId, data) ==
    /\ memoryCache' = memoryCacheSet(memoryCache, TokenKey(tokenId), data, now)
    /\ ret' = [op |-> "set", key |-> TokenKey(tokenId)]
    /\ UNCHANGED <<now, files, handlers, fetchVars>>

\* The capacity safeguard of the memory tier.  The configured maximum and
\* the pass: it runs only when the tier holds more entries than the
\* maximum, orders them by ascending timestamp and removes the oldest 20%.
\* Entries with equal timestamps may go in either order.
MEMORY_CACHE_MAX == 4

Oldest20Percent_mutNewest(m) ==
    LET n == Cardinality(DOMAIN m)
    IN  { E \in SUBSET (DOMAIN m) :
            /\ Cardinality(E) = (n * 20) \div 100
            /\ \A e \in E, k \in (DOMAIN m) \ E :
                  m[e].timestamp >= m[k].timestamp }

Oldest20Percent(m) ==
    LET n == Cardinality(DOMAIN m)
    IN  { E \in SUBSET (DOMAIN m) :
            /\ Cardinality(E) = (n * 20) \div 100
            /\ \A e \in E, k \in (DOMAIN m) \ E :
                  m[e].timestamp <= m[k].timestamp }

EvictionPass ==
    /\ Cardinality(DOMAIN memoryCache) > MEMORY_CACHE_MAX
    /\ \E E \in Oldest20Percent(memoryCache) :
          /\ memoryCache' = [k \in (DOMAIN memoryCache) \ E |-> memoryCache[k]]
          /\ ret' = [op |-> "evict", before |-> Cardinality(DOMAIN memoryCache),
                     removed |-> Cardinality(E)]
    /\ UNCHANGED <<now, files, handlers, fetchVars>>

\* the server process restarts: the Map is lost, the files stay
Restart ==
    /\ memoryCache # <<>>
    /\ memoryCache' = <<>>
    /\ ret' = [op |-> "restart"]
    /\ UNCHANGED <<now, files, handlers, fetchVars>>

----------------------------------------------------------------------------
(* src/unnamed/part_001: fetchWithRetry and its rate limiter.  A call moves *)
(* from await to await: the wait of waitForRateLimit, the upstream request, *)
(* the wait before a retry.  Timers fire when they are due.                 *)

Callers == 1..NumCallers
\* granularity of the clock while requests arrive: half of RATE_LIMIT_DELAY
RateStep == RATE_LIMIT_DELAY \div 2

\* how an upstream request ends: a body that parses, a body that does not,
\* status 429, a status >= 500, another non-OK status, fetch rejecting
Outcomes ==
    {"ok", "badJson", "status429", "status5xx", "status4xx", "networkError"}

IdleCall == [pc |-> "idle", retryCount |-> 0, attempts |-> 0, wakeAt |-> 0]

\* retryCount <= MAX_RETRIES
mayRetry_mutOffByOne(retryCount) == retryCount <= MAX_RETRIES

\* retryCount < MAX_RETRIES
mayRetry(retryCount) == retryCount < MAX_RETRIES

\* waitForRateLimit() up to its await, and when it does not wait the
\* assignment to lastRequestTime and the fetch that follows it
enterAttempt(call, last, t) ==
    LET timeSinceLastRequest == t - last IN
    IF timeSinceLastRequest < RATE_LIMIT_DELAY
    THEN [call |-> [call EXCEPT !.pc = "rateWait",
                       !.wakeAt = t + (RATE_LIMIT_DELAY - timeSinceLastRequest)],
          last |-> last]
    ELSE [call |-> [call EXCEPT !.pc = "fetching", !.attempts = @ + 1],
          last |-> t]

\* catch (error): wait and retry while retries are left, else rethrow
caught(call, t) ==
    IF mayRetry(call.retryCount)
    THEN [call EXCEPT !.pc = "retryWait",
                      !.wakeAt = t + RETRY_DELAY * (call.retryCount + 1)]
    ELSE [call EXCEPT !.pc = "rejected"]

\* the code after `await fetch(...)`; every throw of the try block lands in
\* the catch of the same invocation
afterResponse(call, outcome, t) ==
    IF outcome = "status429"
    THEN IF mayRetry(call.retryCount)
         THEN [call EXCEPT !.pc = "retryWait",
                           !.wakeAt = t + DefaultRetryAfter]
         ELSE caught(call, t)
    ELSE IF outcome = "status5xx"
    THEN IF mayRetry(call.retryCount)
         THEN [call EXCEPT !.pc = "retryWait",
                           !.wakeAt = t + RETRY_DELAY * (call.retryCount + 1)]
         ELSE caught(call, t)
    ELSE IF outcome = "ok"
    THEN [call EXCEPT !.pc = "resolved"]
    ELSE caught(call, t)

\* a caller calls fetchWithRetry(endpoint)
FetchWithRetry(c) ==
    LET r == enterAttempt(calls[c], lastRequestTime, now) IN
    /\ calls[c].pc = "idle"
    /\ calls' = [calls EXCEPT ![c] = r.call]
    /\ lastRequestTime' = r.last
    /\ ret' = [op |-> "fetch", c |-> c, event |-> "call"]
    /\ UNCHANGED <<now, files, memoryCache, handlers>>

\* the timer of waitForRateLimit fires: lastRequestTime = Date.now(), and
\* the request goes out
RateLimitTimer(c) ==
    /\ calls[c].pc = "rateWait"
    /\ now >= calls[c].wakeAt
    /\ calls' = [calls EXCEPT ![c].pc = "fetching", ![c].attempts = @ + 1]
    /\ lastRequestTime' = now
    /\ ret' = [op |-> "fetch", c |-> c, event |-> "rateTimer"]
    /\ UNCHANGED <<now, files, memoryCache, handlers>>

\* the upstream request of a call ends
UpstreamResponse(c, outcome) ==
    /\ calls[c].pc = "fetching"
    /\ calls' = [calls EXCEPT ![c] = afterResponse(calls[c], outcome, now)]
    /\ ret' = [op |-> "fetch", c |-> c, event |-> outcome]
    /\ UNCHANGED <<now, files, memoryCache, handlers, lastRequestTime>>

\* the timer before a retry fires: fetchWithRetry(endpoint, options,
\* retryCount + 1)
RetryTimer(c) ==
    LET r == enterAttempt([calls[c] EXCEPT !.retryCount = @ + 1],
                          lastRequestTime, now)
    IN  /\ calls[c].pc = "retryWait"
        /\ now >= calls[c].wakeAt
        /\ calls' = [calls EXCEPT ![c] = r.call]
        /\ lastRequestTime' = r.last
        /\ ret' = [op |-> "fetch", c |-> c, event |-> "retryTimer"]
        /\ UNCHANGED <<now, files, memoryCache, handlers>>

\* the calls that wait for a timer
Waiting == {c \in Callers : calls[c].pc \in {"rateWait", "retryWait"}}
NoTimerDue == \A c \in Waiting : calls[c].wakeAt > now

\* time passes while requests arrive
Elapse(limit) ==
    /\ now < limit * RateStep
    /\ NoTimerDue
    /\ now' = now + RateStep
    /\ ret' = [op |-> "elapse"]
    /\ UNCHANGED <<files, memoryCache, handlers, fetchVars>>

\* time passes until the next timer is due
ElapseToTimer ==
    /\ Waiting # {}
    /\ NoTimerDue
    /\ \E c \in Waiting :
          /\ \A d \in Waiting : calls[c].wakeAt <= calls[d].wakeAt
          /\ now' = calls[c].wakeAt
    /\ ret' = [op |-> "elapse"]
    /\ UNCHANGED <<files, memoryCache, handlers, fetchVars>>

Init ==
    /\ now = 0
    /\ files = [k \in Keys |-> AbsentFile]
    /\ memoryCache = <<>>
    /\ ret = [op |-> "init"]
    /\ handlers = [h \in Handlers |-> Suspended("idle", Undefined)]
    \* let lastRequestTime = 0: the epoch, long before any Date.now()
    /\ lastRequestTime = 0 - RATE_LIMIT_DELAY
    /\ calls = [c \in Callers |-> IdleCall]

\* the facade on a store without I/O faults
Next ==
    \/ \E key \in GenericKeys, data \in Payloads, duration \in Durations :
          CallCacheData(key, data, duration, "none")
    \/ \E key \in GenericKeys, duration \in Durations :
          CallGetCachedData(key, duration, "none")
    \/ \E key \in GenericKeys : CallDeleteCachedData(key, "none")
    \/ Tick(MaxTicks)

Spec == Init /\ [][Next]_vars

\* the facade on a store whose fs calls can fail and whose files can rot
NextFaults ==
    \/ \E key \in FaultKeys, data \in FaultPayloads,
          duration \in FaultDurations, io \in PutFaults :
          CallCacheData(key, data, duration, io)
    \/ \E key \in FaultKeys, duration \in FaultDurations, io \in GetFaults :
          CallGetCachedData(key, duration, io)
    \/ \E key \in FaultKeys, io \in DeleteFaults :
          CallDeleteCachedData(key, io)
    \/ \E key \in FaultKeys : CorruptStore(key)
    \/ \E key \in FaultKeys, timestamp \in ForeignTimestamps :
          DamageTimestamp(key, timestamp)
    \/ \E io \in ListFaults : CallGetAllData(io)
    \/ Tick(MaxFaultTicks)

SpecFaults == Init /\ [][NextFaults]_vars

\* the older facade of part_000 on a store without I/O faults
Next0 ==
    \/ \E data \in Payloads, duration \in Durations :
          CallCacheData0("a", data, duration, "none")
    \/ \E duration \in Durations : CallGetCachedData0("a", duration, "none")
    \/ CallDeleteCachedData0("a", "none")
    \/ Tick(MaxTicks)

Spec0 == Init /\ [][Next0]_vars

\* requests for tokens served by one server process
NextToken ==
    \/ \E tokenId \in TokenIds, upstream \in Upstreams :
          TokenRequest(tokenId, upstream, "none")
    \/ Restart
    \/ Tick(MaxTokenTicks)

SpecToken == Init /\ [][NextToken]_vars

\* the memory tier alone: writes for many tokens and the eviction pass
NextMemory ==
    \/ \E tokenId \in 1..NumMemKeys : MemorySet(tokenId, EnrichedTokenData(1))
    \/ EvictionPass
    \/ Tick(MaxMemTicks)

SpecMemory == Init /\ [][NextMemory]_vars

\* requests for one token on a store whose fs calls can fail, and the
\* facade's delete for the key of that token
TokenFaults == {"none", "mkdir", "write"}

NextTokenOps ==
    \/ \E upstream \in Upstreams, io \in TokenFaults :
          TokenRequest(1, upstream, io)
    \/ CallDeleteCachedData(TokenKey(1), "none")
    \/ Restart
    \/ Tick(MaxOpsTicks)

SpecTokenOps == Init /\ [][NextTokenOps]_vars

\* requests for one token while the upstream moves on: a fetch at time t
\* delivers the version of the token data current at t
UpstreamAt(t) == [kind |-> "ok", v |-> t \div TICK + 1]
\* the time the upstream delivered a payload
ObtainedAt(data) == (data.v - 1) * TICK

NextStale ==
    \/ TokenRequest(1, UpstreamAt(now), "none")
    \/ \E upstream \in {u \in Upstreams : u.kind # "ok"} :
          TokenRequest(1, upstream, "none")
    \/ Restart
    \/ Tick(MaxStaleTicks)

SpecStale == Init /\ [][NextStale]_vars

\* two overlapping requests for one token in one server process
NextConc ==
    \/ \E h \in Handlers : HandlerStart(h)
    \/ \E h \in Handlers : HandlerAfterRead(h)
    \/ \E h \in Handlers : HandlerAfterGet(h)
    \/ \E h \in Handlers, upstream \in Upstreams : HandlerFetched(h, upstream)
    \/ \E h \in Handlers : HandlerAfterPut(h)
    \/ Tick(MaxConcTicks)

SpecConc == Init /\ [][NextConc]_vars

\* the facade called with two keys on a store without I/O faults
PairKeys == {"a", "b"}
PairPayloads == {p \in Payloads : p.v = 1}
PairDurations == {Num(TICK), Num(CACHE_DURATION)}

NextPair ==
    \/ \E key \in PairKeys, data \in PairPayloads, duration \in PairDurations :
          CallCacheData(key, data, duration, "none")
    \/ \E key \in PairKeys, duration \in PairDurations :
          CallGetCachedData(key, duration, "none")
    \/ \E key \in PairKeys : CallDeleteCachedData(key, "none")
    \/ Tick(MaxPairTicks)

SpecPair == Init /\ [][NextPair]_vars

\* requests for the holders of the tokens
NextOwners ==
    \/ \E tokenId \in TokenIds,
          upstream \in {u \in Upstreams : u.kind \in {"notFound", "ok"}} :
          OwnersRequest(tokenId, upstream)
    \/ Tick(MaxOwnersTicks)

SpecOwners == Init /\ [][NextOwners]_vars

\* concurrent callers of fetchWithRetry whose requests all succeed
NextRate ==
    \/ \E c \in Callers : FetchWithRetry(c)
    \/ \E c \in Callers : RateLimitTimer(c)
    \/ \E c \in Callers : UpstreamResponse(c, "ok")
    \/ Elapse(MaxRateTicks)

SpecRate == Init /\ [][NextRate]_vars

\* calls of fetchWithRetry against an upstream that answers in every way
RetryCallers == {1, 2}
NextRetry ==
    \/ \E c \in RetryCallers : FetchWithRetry(c)
    \/ \E c \in RetryCallers : RateLimitTimer(c)
    \/ \E c \in RetryCallers, outcome \in Outcomes :
          UpstreamResponse(c, outcome)
    \/ \E c \in RetryCallers : RetryTimer(c)
    \/ ElapseToTimer

SpecRetry == Init /\ [][NextRetry]_vars

----------------------------------------------------------------------------
(* Claims about the facade of src/cache.js *)

\* the last call was get(key, d), d > 0, directly after put(key, v, d)
GetFollowsPut ==
    /\ ret.op = "get"
    /\ ret.after # <<>>
    /\ ret.after[1].duration = ret.duration
    /\ IsNum(ret.duration)
    /\ ret.duration[1] > 0

\* the payload a get handed back is v (the get returns the stored object
\* {data, timestamp, expiry}; the payload is its data property)
Returned(v) == ret.value # Null /\ ret.value[1].data = v

\* C1 as stated: for every key, every payload v and every ttlMs > 0, a
\* put(key, v, ttlMs) followed immediately by get(key, ttlMs) makes the get
\* return v.
C1_Original == GetFollowsPut => Returned(ret.after[1].data)

\* C1 as amended: for every non-empty key, every truthy payload v that does
\* not carry an `expiry` property of its own lying in the past, and every
\* ttlMs > 0, a put(key, v, ttlMs) followed immediately by get(key, ttlMs)
\* makes the get return v.
C1_Fresh ==
    ( /\ GetFollowsPut
      /\ ret.key # ""
      /\ Truthy(ret.after[1].data)
      /\ ~PayloadExpiredAt(ret.after[1].data, now) )
        => Returned(ret.after[1].data)

C1_Witness ==
    /\ GetFollowsPut
    /\ ret.key # ""
    /\ Truthy(ret.after[1].data)
    /\ now > 0
    /\ ret.outcome = "hit"
    /\ ret.value[1].timestamp = Num(now)

\* C2: after put(key, v, T), once more than T has elapsed a get(key, T)
\* returns null and removes the durable record, and every later get of the
\* key keeps returning null until the next put of that key.
C2_NoResurrection ==
    [][ \A key \in GenericKeys \ {""} :
          /\ \A d \in Durations :
                ( /\ CallGetCachedData(key, d, "none")
                  /\ files[key].kind = "json"
                  /\ IsNum(d)
                  /\ now - GetTime(files[key].timestamp) > d[1] )
                    => (ret'.value = Null /\ files'[key] = AbsentFile)
          /\ \A d \in Durations :
                (CallGetCachedData(key, d, "none") /\ files[key] = AbsentFile)
                    => (ret'.value = Null /\ files'[key] = AbsentFile)
          /\ (files[key] = AbsentFile /\ files'[key] # AbsentFile)
                => (ret'.op = "put" /\ ret'.key = key)
      ]_vars

C2_Witness ==
    /\ ret.op = "get"
    /\ ret.seen.kind = "json"
    /\ IsNum(ret.duration)
    /\ now - GetTime(ret.seen.timestamp) > ret.duration[1]
    /\ ret.value = Null
    /\ files[ret.key] = AbsentFile

\* C3: the duration passed to get, not the one passed to the earlier put,
\* decides freshness: a get(key, d) issued when the record's age exceeds d
\* returns null even if the put-time duration has not elapsed, and a get
\* issued when the age is at most d returns the payload even if it has.
C3_ReadDurationDecides ==
    (ret.op = "get" /\ ret.seen.kind = "json" /\ IsNum(ret.duration)) =>
        LET age == now - GetTime(ret.seen.timestamp) IN
        /\ age > ret.duration[1] => ret.value = Null
        /\ (age <= ret.duration[1] /\ ~IsNum(ret.seen.data.data.expiry))
              => Returned(ret.seen.data.data)

C3_Witness ==
    /\ ret.op = "get"
    /\ ret.seen.kind = "json"
    /\ IsNum(ret.duration)
    /\ now - GetTime(ret.seen.timestamp) > ret.duration[1]
    /\ now < ret.seen.data.expiry[1]
    /\ ret.value = Null

\* the last call was get(key, T) directly after a put(key, v2, T) that
\* found the record of an earlier put(key, v1, .), not expired under T
GetFollowsOverwrite ==
    /\ GetFollowsPut
    /\ ret.after[1].seen.kind = "json"
    /\ ~isExpired(ret.after[1].seen.timestamp, ret.duration, now)
    /\ ~PayloadExpiredAt(ret.after[1].seen.data.data, now)

\* C4 as stated: after put(key, v1, T) then put(key, v2, T) with no expiry
\* in between, get(key, T) returns v2 and never v1.
C4_Original ==
    GetFollowsOverwrite =>
        /\ Returned(ret.after[1].data)
        /\ ret.after[1].seen.data.data # ret.after[1].data
              => ~Returned(ret.after[1].seen.data.data)

\* C4 as amended: after put(key, v1, T) then put(key, v2, T) with no expiry
\* in between and a truthy v2 that carries no `expiry` property of its own
\* lying in the past, get(key, T) returns v2 and never v1.
C4_Overwrite ==
    ( /\ GetFollowsOverwrite
      /\ Truthy(ret.after[1].data)
      /\ ~PayloadExpiredAt(ret.after[1].data, now) )
        => /\ Returned(ret.after[1].data)
           /\ ret.after[1].seen.data.data # ret.after[1].data
                 => ~Returned(ret.after[1].seen.data.data)

C4_Witness ==
    /\ GetFollowsOverwrite
    /\ Truthy(ret.after[1].data)
    /\ ret.after[1].seen.data.data # ret.after[1].data
    /\ GetTime(ret.after[1].seen.timestamp) < now
    /\ Returned(ret.after[1].data)

\* C7: when the stored content for a key cannot be parsed, the store's read
\* resolves to null and get for that key returns null; neither throws.
C7_CorruptionFailSafe ==
    /\ \A key \in FaultKeys :
          files[key].kind = "corrupt" =>
              LET r == readData(files, key, "none")
              IN  r.value = Null /\ ~r.threw
    /\ (ret.op = "get" /\ ret.seen.kind = "corrupt")
          => (ret.value = Null /\ ~ret.threw)

C7_Witness ==
    /\ ret.op = "get"
    /\ ret.seen.kind = "corrupt"
    /\ ret.io = "none"
    /\ ret.value = Null

\* C9: a durable record is fresh exactly when now - writtenAt < ttl; a get
\* issued when now - writtenAt equals the ttl returns null.
C9_FreshnessBoundary ==
    ( /\ ret.op = "get"
      /\ ret.seen.kind = "json"
      /\ IsNum(ret.duration)
      /\ ~PayloadExpiredAt(ret.seen.data.data, now) )
        => ( ret.value # Null
               <=> now - GetTime(ret.seen.timestamp) < ret.duration[1] )

\* C10: whenever the underlying durable write fails with an I/O error, put
\* returns false and does not throw.
C10_PutReportsFailure ==
    ( /\ ret.op = "put"
      /\ ret.key # ""
      /\ Truthy(ret.data)
      /\ ret.io \in {"write", "writePartial"} )
        => (ret.value = FALSE /\ ~ret.threw)

----------------------------------------------------------------------------
(* Claims about invalidation, the memory tier and the token handler *)

\* C5: invalidate(key) on a key that has no durable record returns true
\* without raising an error and leaves the store unchanged; so does a
\* second call directly after it.
C5_InvalidateAbsent ==
    (ret.op = "delete" /\ ret.key # "" /\ ret.seen.kind = "absent")
        => (ret.value = TRUE /\ ~ret.threw /\ files[ret.key] = AbsentFile)

\* C6: after the handler has stored a token, the read that prefers the
\* memory tier and the read that goes to the durable tier alone return the
\* same payload for as long as both tiers consider their entry fresh.
C6_TierCoherence ==
    \A tokenId \in TokenIds :
        LET key == TokenKey(tokenId)
            d == getCachedData(files, key, Num(CACHE_DURATION), now, "none")
        IN  (memoryFresh(memoryCache, key, now) /\ d.value # Null)
                => memoryCache[key].data = d.value[1].data

C6_Witness ==
    /\ ret.op = "token"
    /\ ret.outcome = "memory"
    /\ memoryFresh(memoryCache, ret.key, now)
    /\ now > memoryCache[ret.key].timestamp
    /\ LET d == getCachedData(files, ret.key, Num(CACHE_DURATION), now, "none")
       IN  d.value # Null /\ ret.body = <<d.value[1].data>>

MemoryCount == Cardinality(DOMAIN memoryCache)

----------------------------------------------------------------------------
(* Claims about the two tiers under faults and invalidation *)

\* C11: on the populate path the memory tier is written for a key only when
\* the durable put for that key succeeded: a request whose durable put
\* returned false leaves the memory tier as it was.
C11_WriteThroughOnSuccess ==
    [][\A upstream \in Upstreams, io \in TokenFaults :
          (TokenRequest(1, upstream, io) /\ ret'.stored = <<FALSE>>)
              => memoryCache' = memoryCache]_vars

\* C12: after invalidate(key) has returned, neither the durable tier nor the
\* memory tier holds an entry for the key.
C12_InvalidateClearsBoth ==
    (ret.op = "delete" /\ ret.value = TRUE)
        => /\ files[ret.key] = AbsentFile
           /\ ret.key \notin DOMAIN memoryCache

\* C13: a request first consults the memory tier and on a fresh memory hit
\* answers with that payload and leaves the durable tier and the memory tier
\* as they were; on a memory miss with a fresh durable hit it answers with
\* the durable payload, stores it in the memory tier with timestamp now and
\* leaves the durable tier as it was; on a miss in both tiers the read finds
\* nothing, backfills nothing and leaves no durable record: the request goes
\* on to the upstream, and unless the upstream delivers the token both tiers
\* end without a record written.
C13_ReadOrderAndBackfill ==
    [][\A tokenId \in TokenIds, upstream \in Upstreams :
          TokenRequest(tokenId, upstream, "none") =>
            LET key == TokenKey(tokenId)
                memoryHit ==
                    /\ key \in DOMAIN memoryCache
                    /\ now - memoryCache[key].timestamp < MEMORY_CACHE_DURATION
                durable == getCachedData(files, key, Num(CACHE_DURATION), now,
                                         "none")
            IN  /\ memoryHit =>
                      /\ ret'.body = <<memoryCache[key].data>>
                      /\ files' = files
                      /\ memoryCache' = memoryCache
                /\ (~memoryHit /\ durable.value # Null) =>
                      /\ ret'.body = <<durable.value[1].data>>
                      /\ memoryCache' =
                            (key :> [data |-> durable.value[1].data,
                                     timestamp |-> now]) @@ memoryCache
                      /\ files' = files
                /\ (~memoryHit /\ durable.value = Null) =>
                      /\ ret'.outcome \in {"fresh", "notFound", "error"}
                      /\ ret'.outcome # "fresh" =>
                            /\ ret'.body = Null
                            /\ memoryCache' = memoryCache
                            /\ files'[key] = AbsentFile]_vars

\* a backfill happened: after a restart the request found a durable record
\* written earlier and the memory tier now holds it under the current time
C13_Witness ==
    /\ ret.op = "token"
    /\ ret.outcome = "disk"
    /\ files[ret.key].kind = "json"
    /\ GetTime(files[ret.key].timestamp) < now
    /\ memoryCache[ret.key] = [data |-> ret.body[1], timestamp |-> now]

----------------------------------------------------------------------------
(* Claims about expiry in the durable store *)

\* C14: a durable record whose write timestamp is missing or is not a
\* parsable time is treated as already expired: a get that meets it
\* returns null.
C14_BadTimestampExpired ==
    (/\ ret.op = "get"
     /\ ret.seen.kind = "json"
     /\ ret.seen.timestamp \in ForeignTimestamps)
        => ret.value = Null

\* C15: a get called without a duration judges expiry against the duration
\* the record was written with: a record older than its write-time duration
\* (the current time is past the expiry instant the put recorded) is not
\* returned.
C15_StoredDurationRespected ==
    (/\ ret.op = "get"
     /\ ret.duration = Undefined
     /\ ret.seen.kind = "json"
     /\ now > ret.seen.data.expiry[1])
        => ret.value = Null

\* C16: no operation of the durable store propagates a failure: whatever fs
\* call fails, read, write, delete and listAll end in a null/void result and
\* no exception reaches the caller.
C16_StoreNeverThrows ==
    /\ ret.op = "list" => ~ret.threw
    /\ \A key \in FaultKeys :
          /\ \A io \in GetFaults : ~readData(files, key, io).threw
          /\ \A io \in PutFaults, data \in FaultPayloads :
                ~writeData(files, key,
                           [data |-> data, timestamp |-> ToISOString(now),
                            duration |-> Undefined], io).threw
          /\ \A io \in DeleteFaults : ~deleteData(files, key, io).threw

----------------------------------------------------------------------------
(* Claims about the lifecycle of a durable record *)

\* the state of the record of a key for the read duration d at time t
RecordState(f, key, d, t) ==
    IF f[key].kind # "json" THEN "ABSENT"
    ELSE IF t - GetTime(f[key].timestamp) < d THEN "FRESH"
    ELSE "STALE"

\* the moves of the record of key "a" over one step, for the read duration
\* d; gets with another duration are left out.  onFresh tells when a get
\* may remove a FRESH record.
LifecycleStep(d, onFresh) ==
    LET before == RecordState(files, "a", d, now)
        after == RecordState(files', "a", d, now')
    IN  (/\ ret'.op = "get" => ret'.duration = Num(d)
         /\ before # after)
            => \/ /\ before = "ABSENT" /\ after = "FRESH"
                  /\ ret'.op = "put" /\ ret'.value = TRUE
               \/ before = "FRESH" /\ after = "STALE" /\ ret'.op = "tick"
               \/ before = "STALE" /\ after = "FRESH" /\ ret'.op = "put"
               \/ after = "ABSENT" /\ ret'.op = "delete"
               \/ /\ after = "ABSENT" /\ ret'.op = "get"
                  /\ before = "STALE" \/ onFresh

----------------------------------------------------------------------------
(* Claims about the age of what the memory tier serves *)

\* C20: a payload returned from the memory tier was obtained from the
\* upstream at most MEMORY_CACHE_DURATION (60 s) before the moment it is
\* returned.
C20_MemoryStaleness ==
    (ret.op = "token" /\ ret.outcome = "memory")
        => now - ObtainedAt(ret.body[1]) <= MEMORY_CACHE_DURATION

----------------------------------------------------------------------------
(* Claims about overlapping requests *)

\* the record that the put of a handler wrote: w is [data, at]
WrittenRecord(w) ==
    JsonFile([data |-> [data |-> w.data, timestamp |-> Num(w.at),
                        expiry |-> Num(w.at + CACHE_DURATION)],
              timestamp |-> ToISOString(w.at), duration |-> Undefined])

\* both handlers observed a miss, fetched and wrote; neither has gone on
BothWritten == \A h \in Handlers : handlers[h].pc = "afterPut"

\* C17: misses are not deduplicated: two handlers for the same key can both
\* observe a miss, both fetch and both write; once both writes have
\* completed the durable record of the key is exactly the record of one of
\* the two writes, never a mixture and never absent.
C17_OneOfTwoWrites ==
    BothWritten =>
        \E h \in Handlers :
            files[TokenKey(1)] = WrittenRecord(handlers[h].local[1])

\* both handlers missed and wrote different payloads
C17_Witness ==
    /\ BothWritten
    /\ handlers[1].local[1].data # handlers[2].local[1].data
    /\ files[TokenKey(1)].kind = "json"

\* C18: among concurrent puts to one key the put that completes last
\* determines the stored payload, and a get that starts after a put has
\* completed, before the record expires and with no invalidation, returns
\* the payload of that put or of a later one.
C18_CompletedWriteVisible ==
    /\ (ret.op = "handler" /\ ret.outcome = "written") =>
          files[TokenKey(1)] = WrittenRecord(handlers[ret.h].local[1])
    /\ \A h \in Handlers :
          (/\ handlers[h].pc = "afterPut"
           /\ now - handlers[h].local[1].at < CACHE_DURATION)
              => LET g == getCachedData(files, TokenKey(1),
                                        Num(CACHE_DURATION), now, "none")
                 IN  /\ g.value # Null
                     /\ g.value[1].timestamp[1] >= handlers[h].local[1].at

----------------------------------------------------------------------------
(* Claims about what a request writes *)

\* C21: a cache record is created or overwritten only after a successful
\* upstream fetch: a request whose upstream fetch fails or delivers no token
\* data ends with the memory tier as it was and with no durable record
\* created or changed, and every request that does create or change the
\* durable record of its key has fetched the token data it stores.
C21_WriteOnlyAfterFetch ==
    [][\A tokenId \in TokenIds, upstream \in Upstreams :
          TokenRequest(tokenId, upstream, "none") =>
            LET key == TokenKey(tokenId) IN
            /\ upstream.kind # "ok" =>
                  \/ ret'.outcome \in {"memory", "disk"}
                  \/ /\ memoryCache' = memoryCache
                     /\ files'[key] \in {files[key], AbsentFile}
                     /\ \A k \in Keys \ {key} : files'[k] = files[k]
            /\ files'[key] \notin {files[key], AbsentFile} =>
                  /\ upstream.kind = "ok"
                  /\ files'[key].data.data = EnrichedTokenData(upstream.v)]_vars

\* a request has just ended with 404 while both tiers stay empty of its key
C21_Witness ==
    /\ ret.op = "token"
    /\ ret.outcome = "notFound"
    /\ files[ret.key] = AbsentFile
    /\ ret.key \notin DOMAIN memoryCache
    /\ now > 0

C23_NoLostFreshWrite ==
    [][\A h \in Handlers :
          (/\ HandlerAfterRead(h)
           /\ handlers[h].local # Null
           /\ files[TokenKey(1)].kind = "json"
           /\ files[TokenKey(1)] # handlers[h].local[1])
              => files'[TokenKey(1)] = files[TokenKey(1)]]_vars

\* C24: in every reachable state of concurrent requests for one token, if
\* the memory entry and the durable record of the token are both fresh
\* then they hold the same payload.
C24_CoherenceUnderInterleaving ==
    LET key == TokenKey(1) IN
    (/\ key \in DOMAIN memoryCache
     /\ now - memoryCache[key].timestamp < MEMORY_CACHE_DURATION
     /\ files[key].kind = "json"
     /\ now - GetTime(files[key].timestamp) < CACHE_DURATION)
        => memoryCache[key].data = files[key].data.data

----------------------------------------------------------------------------
(* Claims about what put reports and what it records *)

\* C25: the boolean returned by put tells the truth about persistence: put
\* returns true if and only if the record was written, so that a get with
\* the same duration issued immediately afterwards hits with the payload;
\* it returns false if and only if nothing was written.
C25_PutBooleanTruth ==
    ret.op = "put" =>
        LET g == getCachedData(files, ret.key, ret.duration, now, "none")
            hits == g.value # Null /\ g.value[1].data = ret.data
        IN  /\ ret.value = TRUE <=> hits
            /\ ret.value = FALSE => files[ret.key] = ret.seen

\* C26: put records expiry = write time + duration (30 s without a
\* duration), and a get issued after that instant deletes the record and
\* returns null whatever duration the get itself passes.
C26_WriteTimeExpiryEnforced ==
    /\ (ret.op = "put" /\ ret.outcome = "written") =>
          files[ret.key].data.expiry = Num(now + OrDefault(ret.duration))
    /\ (/\ ret.op = "get"
        /\ ret.seen.kind = "json"
        /\ now > ret.seen.data.expiry[1])
          => (ret.value = Null /\ files[ret.key] = AbsentFile)

----------------------------------------------------------------------------
(* Claims about the call sites of the facade *)

\* C27: cached responses are isolated by request parameters: a request for
\* the holders of a token that is answered from the cache receives a
\* holders payload stored for that token, not one stored while another
\* token was served and not the key or the duration.
C27_IsolatedByParameters ==
    (ret.op = "owners" /\ ret.outcome = "disk")
        => \E i \in 1..NumValues : ret.body = <<OwnersData(ret.tokenId, i)>>

\* C28: any two upstream requests are started at least RATE_LIMIT_DELAY
\* apart, for any number of concurrent callers of fetchWithRetry: a step
\* that starts a request (attempts grows) happens RATE_LIMIT_DELAY or more
\* after the request started before it (lastRequestTime).
RequestStarts(c) == calls'[c].attempts = calls[c].attempts + 1
C28_RateLimitUnderConcurrency ==
    [][\A c \in Callers :
          RequestStarts(c) => now - lastRequestTime >= RATE_LIMIT_DELAY]_vars

\* C29: one call of fetchWithRetry makes at most MAX_RETRIES + 1 upstream
\* attempts, whatever the upstream answers, and retryCount never exceeds
\* MAX_RETRIES; after the last attempt the call waits for no further timer:
\* it is in flight, resolved or rejected.
C29_BoundedAttempts ==
    \A c \in Callers :
        /\ calls[c].attempts <= MAX_RETRIES + 1
        /\ calls[c].retryCount <= MAX_RETRIES
        /\ calls[c].attempts <= calls[c].retryCount + 1
        /\ calls[c].attempts = MAX_RETRIES + 1 =>
              calls[c].pc \in {"fetching", "resolved", "rejected"}
C29_Witness ==
    \E c \in Callers :
        /\ calls[c].pc = "rejected"
        /\ calls[c].attempts = MAX_RETRIES + 1
        /\ calls[c].retryCount = MAX_RETRIES

\* C30: a non-OK response whose status is neither 429 nor >= 500 makes the
\* call reject after that single attempt, without a further upstream
\* attempt: the step that receives such a response leaves the call rejected.
C30_OnlyRetryableRetried ==
    [][\A c \in Callers :
          (ret'.op = "fetch" /\ ret'.c = c /\ ret'.event = "status4xx"
           /\ calls[c].pc = "fetching")
          => calls'[c].pc = "rejected"]_vars

====
